---- MODULE Spec2Model ----
(***************************************************************************)
(* A model of the swap-and-match engine's Board (src/src/board.rs): the    *)
(* packed per-cell state (one bitboard per piece type, the empties         *)
(* bitboard, four movability bitboards), the queue of changed positions,   *)
(* the swap-rule chain, the match scan and the gravity ("trickle") engine. *)
(* Every public method of Board is one action; the private helpers are     *)
(* operators over a record holding the four fields of BoardState.          *)
(***************************************************************************)
EXTENDS Integers, Sequences, FiniteSets, TLC

VARIABLES width, height, pieces, empties, movable_directions, last_changed,
          call, prev, calls

vars == <<width, height, pieces, empties, movable_directions, last_changed,
          call, prev, calls>>

(***************************************************************************)
(* Bounds of the model.                                                    *)
(***************************************************************************)
Width == 2
Height == 2
MaxCalls == 3
MaxQueue == 3
MaxSide == 3
MaxCells == 6
MaxAdds == 1
MaxSwaps == 1

(***************************************************************************)
(* Positions, directions, pieces.                                          *)
(***************************************************************************)
Pos == (0 .. width - 1) \X (0 .. height - 1)

North == "North"
South == "South"
East == "East"
West == "West"

ALL_DIRECTIONS == {North, South, East, West}

\* PieceType is char; the tests use 'f' and 's'.
PieceType == {"f", "s"}

Wall == [kind |-> "Wall"]
Empty == [kind |-> "Empty"]
Regular(piece_type, directions) ==
    [kind |-> "Regular", piece_type |-> piece_type, directions |-> directions]

None == [kind |-> "None"]
Some(v) == [kind |-> "Some", value |-> v]

(***************************************************************************)
(* BitBoard: one boolean per cell, held as the set of the cells whose bit  *)
(* is set.                                                                 *)
(***************************************************************************)
BitBoardNew == {}
BitSet(board, pos) == board \cup {pos}
BitUnset(board, pos) == board \ {pos}
BitIsSet(board, pos) == pos \in board
BitSwap(board, first, second) ==
    LET f == BitIsSet(board, first)
        s == BitIsSet(board, second)
        cleared == board \ {first, second}
    IN  cleared \cup (IF s THEN {first} ELSE {}) \cup (IF f THEN {second} ELSE {})

(***************************************************************************)
(* BoardState, as a record of its four mutable fields.                     *)
(***************************************************************************)
BoardStateNewAllEmpty ==
    [pieces |-> << >>,
     empties |-> Pos,
     movable_directions |-> [d \in ALL_DIRECTIONS |-> BitBoardNew],
     last_changed |-> << >>]

BoardStateNew ==
    [pieces |-> << >>,
     empties |-> BitBoardNew,
     movable_directions |-> [d \in ALL_DIRECTIONS |-> BitBoardNew],
     last_changed |-> << >>]

State ==
    [pieces |-> pieces,
     empties |-> empties,
     movable_directions |-> movable_directions,
     last_changed |-> last_changed]

is_within_board(pos) == pos[1] < width /\ pos[2] < height

\* HashMap iteration finds the (by the invariant, only) type whose bit is set.
TypesAt(st, pos) == {t \in DOMAIN st.pieces : BitIsSet(st.pieces[t], pos)}

piece_type(st, pos) ==
    IF TypesAt(st, pos) = {} THEN None
    ELSE Some(CHOOSE t \in TypesAt(st, pos) : TRUE)

get_movable_directions(st, pos) ==
    {d \in ALL_DIRECTIONS : BitIsSet(st.movable_directions[d], pos)}

set_movable_directions(st, pos, directions) ==
    [st EXCEPT !.movable_directions =
        [d \in ALL_DIRECTIONS |->
            IF d \in directions THEN BitSet(st.movable_directions[d], pos)
            ELSE BitUnset(st.movable_directions[d], pos)]]

piece(st, pos) ==
    IF BitIsSet(st.empties, pos) THEN Empty
    ELSE LET possible_type == piece_type(st, pos)
         IN  IF possible_type = None THEN Wall
             ELSE Regular(possible_type.value, get_movable_directions(st, pos))

\* pieces.entry(t).and_modify(f): f applied if the type has a bitboard.
AndModifyUnset(boards, t, pos) ==
    IF t \in DOMAIN boards THEN [boards EXCEPT ![t] = BitUnset(@, pos)] ELSE boards

AndModifySwap(boards, t, first, second) ==
    IF t \in DOMAIN boards THEN [boards EXCEPT ![t] = BitSwap(@, first, second)]
    ELSE boards

\* Mutant: the board created for a type not seen before has every bit set.
SetOrInsertFullBoard(boards, t, pos) ==
    [u \in DOMAIN boards \cup {t} |->
        IF u = t
        THEN (IF t \in DOMAIN boards THEN BitSet(boards[t], pos) ELSE Pos)
        ELSE boards[u]]

\* pieces.entry(t).and_modify(set).or_insert_with(new board with pos set)
SetOrInsert(boards, t, pos) ==
    [u \in DOMAIN boards \cup {t} |->
        IF u = t
        THEN (IF t \in DOMAIN boards THEN BitSet(boards[t], pos)
              ELSE BitSet(BitBoardNew, pos))
        ELSE boards[u]]

\* Mutant: the old type's bit is left set.
ClearOldTypeSkipped(st, pos) == st

ClearOldType(st, pos) ==
    LET possible_type == piece_type(st, pos)
    IN  IF possible_type = None THEN st
        ELSE [st EXCEPT !.pieces = AndModifyUnset(st.pieces, possible_type.value, pos)]

\* Mutant: a regular piece is written as movable in every direction.
WriteNewPieceAllMovable(st, pos, new_piece) ==
    IF new_piece.kind = "Regular"
    THEN set_movable_directions(
            [st EXCEPT !.pieces = SetOrInsert(st.pieces, new_piece.piece_type, pos),
                       !.empties = BitUnset(st.empties, pos)],
            pos, ALL_DIRECTIONS)
    ELSE IF new_piece.kind = "Empty"
    THEN set_movable_directions(
            [st EXCEPT !.empties = BitSet(st.empties, pos)], pos, ALL_DIRECTIONS)
    ELSE set_movable_directions(
            [st EXCEPT !.empties = BitUnset(st.empties, pos)], pos, {})

WriteNewPiece(st, pos, new_piece) ==
    IF new_piece.kind = "Regular"
    THEN set_movable_directions(
            [st EXCEPT !.pieces = SetOrInsert(st.pieces, new_piece.piece_type, pos),
                       !.empties = BitUnset(st.empties, pos)],
            pos, new_piece.directions)
    ELSE IF new_piece.kind = "Empty"
    THEN set_movable_directions(
            [st EXCEPT !.empties = BitSet(st.empties, pos)], pos, ALL_DIRECTIONS)
    ELSE set_movable_directions(
            [st EXCEPT !.empties = BitUnset(st.empties, pos)], pos, {})

\* Mutant: the position is not marked when the new piece equals the old one.
set_piece_unmarked_when_same(st, pos, new_piece) ==
    LET old_piece == piece(st, pos)
        queued == IF old_piece = new_piece THEN st
                  ELSE [st EXCEPT !.last_changed = Append(st.last_changed, pos)]
    IN  [st |-> WriteNewPiece(ClearOldType(queued, pos), pos, new_piece),
         ret |-> old_piece]

\* Board::set_piece for an in-bounds position: the new state and the old piece.
set_piece(st, pos, new_piece) ==
    LET queued == [st EXCEPT !.last_changed = Append(st.last_changed, pos)]
        old_piece == piece(queued, pos)
    IN  [st |-> WriteNewPiece(ClearOldType(queued, pos), pos, new_piece),
         ret |-> old_piece]

\* Mutant: only the first piece's type board is swapped.
SwapTypeBoardsFirstOnly(st, first, second) ==
    LET possible_first_type == piece_type(st, first)
        possible_second_type == piece_type(st, second)
    IN  IF possible_first_type # possible_second_type /\ possible_first_type # None
        THEN [st EXCEPT !.pieces =
                 AndModifySwap(st.pieces, possible_first_type.value, first, second)]
        ELSE st

SwapTypeBoards(st, first, second) ==
    LET possible_first_type == piece_type(st, first)
        possible_second_type == piece_type(st, second)
        after_first ==
            IF possible_first_type = None THEN st.pieces
            ELSE AndModifySwap(st.pieces, possible_first_type.value, first, second)
        after_second ==
            IF possible_second_type = None THEN after_first
            ELSE AndModifySwap(after_first, possible_second_type.value, first, second)
    IN  IF possible_first_type # possible_second_type
        THEN [st EXCEPT !.pieces = after_second]
        ELSE st

\* Mutant: the West movability board is not swapped.
swap_always_west_unswapped(st, first, second) ==
    IF first = second THEN st
    ELSE SwapTypeBoards(
            [st EXCEPT
                !.last_changed = Append(Append(st.last_changed, first), second),
                !.empties = BitSwap(st.empties, first, second),
                !.movable_directions =
                    [d \in ALL_DIRECTIONS |->
                        IF d = West THEN st.movable_directions[d]
                        ELSE BitSwap(st.movable_directions[d], first, second)]],
            first, second)

\* Mutant: the two positions are marked in a canonical order (left/lower first).
swap_always_marks_sorted(st, first, second) ==
    IF first = second THEN st
    ELSE LET first_is_lower == first[2] < second[2]
                               \/ (first[2] = second[2] /\ first[1] < second[1])
             low == IF first_is_lower THEN first ELSE second
             high == IF first_is_lower THEN second ELSE first
         IN  SwapTypeBoards(
                [st EXCEPT
                    !.last_changed = Append(Append(st.last_changed, low), high),
                    !.empties = BitSwap(st.empties, first, second),
                    !.movable_directions =
                        [d \in ALL_DIRECTIONS |->
                            BitSwap(st.movable_directions[d], first, second)]],
                first, second)

\* swap_always leaving the movable directions of both cells where they were.
swap_always_directions_unswapped(st, first, second) ==
    IF first = second THEN st
    ELSE SwapTypeBoards(
            [st EXCEPT
                !.last_changed = Append(Append(st.last_changed, first), second),
                !.empties = BitSwap(st.empties, first, second)],
            first, second)

swap_always(st, first, second) ==
    IF first = second THEN st
    ELSE SwapTypeBoards(
            [st EXCEPT
                !.last_changed = Append(Append(st.last_changed, first), second),
                !.empties = BitSwap(st.empties, first, second),
                !.movable_directions =
                    [d \in ALL_DIRECTIONS |->
                        BitSwap(st.movable_directions[d], first, second)]],
            first, second)

\* is_vertically_movable reading the bit of the cell the piece moves to.
is_vertically_movable_at_target(st, from, to) ==
    IF to[2] > from[2] THEN BitIsSet(st.movable_directions[North], to)
    ELSE IF to[2] < from[2] THEN BitIsSet(st.movable_directions[South], to)
    ELSE TRUE

is_vertically_movable(st, from, to) ==
    IF to[2] > from[2] THEN BitIsSet(st.movable_directions[North], from)
    ELSE IF to[2] < from[2] THEN BitIsSet(st.movable_directions[South], from)
    ELSE TRUE

\* Mutant: no horizontal change is treated as a move to the east.
is_horizontally_movable_inclusive(st, from, to) ==
    IF to[1] >= from[1] THEN BitIsSet(st.movable_directions[East], from)
    ELSE BitIsSet(st.movable_directions[West], from)

is_horizontally_movable(st, from, to) ==
    IF to[1] > from[1] THEN BitIsSet(st.movable_directions[East], from)
    ELSE IF to[1] < from[1] THEN BitIsSet(st.movable_directions[West], from)
    ELSE TRUE

is_movable(st, from, to) ==
    is_vertically_movable(st, from, to) /\ is_horizontally_movable(st, from, to)

\* Mutant: only the first piece is checked.
are_pieces_movable_first_only(st, first, second) == is_movable(st, first, second)

are_pieces_movable(st, first, second) ==
    LET is_first_movable == is_movable(st, first, second)
        is_second_movable == is_movable(st, second, first)
    IN  is_first_movable /\ is_second_movable

(***************************************************************************)
(* The swap-rule chain.  Board::new puts the built-in movability rule at   *)
(* index 0, in front of the host's rules.  A host rule is an arbitrary     *)
(* predicate over (board, first, second): its verdict for a call is an     *)
(* input of the call (verdicts[rule]).                                     *)
(***************************************************************************)
\* The host's rules handed to Board::new, in the order given.
InputRules == <<"rule_a", "rule_b">>

swap_rules == <<"are_pieces_movable">> \o InputRules

RuleHolds(rule, st, first, second, verdicts) ==
    IF rule = "are_pieces_movable" THEN are_pieces_movable(st, first, second)
    ELSE verdicts[rule]

\* Mutant: every rule is called, whatever the earlier ones returned.
RECURSIVE AllRulesEager(_, _, _, _, _, _)
AllRulesEager(rules, st, first, second, verdicts, evaluated) ==
    IF rules = << >> THEN [ok |-> TRUE, evaluated |-> evaluated]
    ELSE LET rest == AllRulesEager(Tail(rules), st, first, second, verdicts,
                                   Append(evaluated, Head(rules)))
         IN  [ok |-> RuleHolds(Head(rules), st, first, second, verdicts) /\ rest.ok,
              evaluated |-> rest.evaluated]

\* Iterator::all over rules: stops at the first rule that returns false.
\* evaluated lists the rules called, in the order of the calls.
RECURSIVE AllRules(_, _, _, _, _, _)
AllRules(rules, st, first, second, verdicts, evaluated) ==
    IF rules = << >> THEN [ok |-> TRUE, evaluated |-> evaluated]
    ELSE IF RuleHolds(Head(rules), st, first, second, verdicts)
    THEN AllRules(Tail(rules), st, first, second, verdicts,
                  Append(evaluated, Head(rules)))
    ELSE [ok |-> FALSE, evaluated |-> Append(evaluated, Head(rules))]

\* Mutant: the first position is marked before the rules are consulted.
swap_pieces_marking_first(st, first, second, verdicts) ==
    LET marked == [st EXCEPT !.last_changed = Append(st.last_changed, first)]
        rules == AllRules(swap_rules, st, first, second, verdicts, << >>)
    IN  IF ~rules.ok
        THEN [st |-> marked, ret |-> FALSE, evaluated |-> rules.evaluated]
        ELSE [st |-> swap_always(st, first, second), ret |-> TRUE,
              evaluated |-> rules.evaluated]

\* Board::swap_pieces for in-bounds positions.
swap_pieces(st, first, second, verdicts) ==
    LET rules == AllRules(swap_rules, st, first, second, verdicts, << >>)
    IN  IF ~rules.ok
        THEN [st |-> st, ret |-> FALSE, evaluated |-> rules.evaluated]
        ELSE [st |-> swap_always(st, first, second), ret |-> TRUE,
              evaluated |-> rules.evaluated]

(***************************************************************************)
(* Patterns and the match scan.                                            *)
(***************************************************************************)
MinOf(S) == CHOOSE m \in S : \A n \in S : m <= n

MaxOf(S) == CHOOSE m \in S : \A n \in S : m >= n

\* MatchPattern::new keeping the spaces as they were given.
MatchPatternNewAsGiven(ptype, spaces, rank) ==
    [piece_type |-> ptype, spaces |-> spaces, rank |-> rank]

\* MatchPattern::new: the spaces are stored relative to their least x and y.
MatchPatternNew(ptype, spaces, rank) ==
    LET min_x == MinOf({p[1] : p \in spaces})
        min_y == MinOf({p[2] : p \in spaces})
    IN  [piece_type |-> ptype,
         spaces |-> {<<p[1] - min_x, p[2] - min_y>> : p \in spaces},
         rank |-> rank]

\* The patterns handed to Board::new, in the order given.
InputSpaces == << {<<2, 3>>, <<3, 3>>}, {<<1, 1>>, <<1, 2>>} >>

InputPatterns ==
    << MatchPatternNew("f", InputSpaces[1], 1),
       MatchPatternNew("f", InputSpaces[2], 2) >>

\* Vec::sort_by(|a, b| b.rank().cmp(&a.rank())): a stable sort, highest rank first.
RECURSIVE InsertByRank(_, _)
InsertByRank(sorted, pattern) ==
    IF sorted = << >> THEN <<pattern>>
    ELSE IF Head(sorted).rank >= pattern.rank
    THEN <<Head(sorted)>> \o InsertByRank(Tail(sorted), pattern)
    ELSE <<pattern>> \o sorted

RECURSIVE SortByRankDesc(_)
SortByRankDesc(seq) ==
    IF seq = << >> THEN << >>
    ELSE InsertByRank(SortByRankDesc(SubSeq(seq, 1, Len(seq) - 1)), seq[Len(seq)])

\* Board::new keeping the patterns in the order given.
patterns_as_given == InputPatterns

patterns == SortByRankDesc(InputPatterns)

Match(pattern, changed_pos, board_pos) ==
    [pattern |-> pattern, changed_pos |-> changed_pos, board_pos |-> board_pos]

change_origin(positions, origin) ==
    {<<original[1] + origin[1], original[2] + origin[2]>> : original \in positions}

\* check_variant accepting a variant as soon as one of its cells is set.
check_variant_any(board, pattern, new_origin) ==
    LET grid_pos == change_origin(pattern, new_origin)
    IN  IF \E pos \in grid_pos : BitIsSet(board, pos) THEN {grid_pos} ELSE {}

\* The variant anchored at new_origin, as a set: empty for None.
check_variant(board, pattern, new_origin) ==
    LET grid_pos == change_origin(pattern, new_origin)
    IN  IF \A pos \in grid_pos : BitIsSet(board, pos) THEN {grid_pos} ELSE {}

\* check_pattern trying only the variant that puts the pattern's origin at pos.
check_pattern_at_origin(board, pattern, pos) == check_variant(board, pattern, pos)

\* find_map over the HashSet of spaces returns the first variant found in
\* the set's iteration order, which is unspecified: the result is any one
\* of the satisfied variants (the empty set stands for None).
check_pattern(board, pattern, pos) ==
    UNION {IF original[1] > pos[1] \/ original[2] > pos[2] THEN {}
           ELSE check_variant(board, pattern,
                              <<pos[1] - original[1], pos[2] - original[2]>>)
           : original \in pattern}

\* find_map over the sorted patterns from index i on, for the popped position.
RECURSIVE FindMatch(_, _, _)
FindMatch(st, next_pos, i) ==
    IF i > Len(patterns) THEN {}
    ELSE LET pattern == patterns[i]
             found == IF pattern.piece_type \in DOMAIN st.pieces
                      THEN check_pattern(st.pieces[pattern.piece_type],
                                         pattern.spaces, next_pos)
                      ELSE {}
         IN  IF found # {} THEN {Match(pattern, next_pos, positions) : positions \in found}
             ELSE FindMatch(st, next_pos, i + 1)

\* next_match reading the queue from its back.
RECURSIVE next_match_from_back(_)
next_match_from_back(st) ==
    IF st.last_changed = << >> THEN {[st |-> st, ret |-> None]}
    ELSE LET len == Len(st.last_changed)
             next_pos == st.last_changed[len]
             popped == [st EXCEPT !.last_changed = SubSeq(st.last_changed, 1, len - 1)]
             found == FindMatch(popped, next_pos, 1)
         IN  IF found = {} THEN next_match_from_back(popped)
             ELSE {[st |-> popped, ret |-> Some(m)] : m \in found}

\* next_match giving up at the first position that does not match.
next_match_one_pop(st) ==
    IF st.last_changed = << >> THEN {[st |-> st, ret |-> None]}
    ELSE LET next_pos == Head(st.last_changed)
             popped == [st EXCEPT !.last_changed = Tail(st.last_changed)]
             found == FindMatch(popped, next_pos, 1)
         IN  IF found = {} THEN {[st |-> popped, ret |-> None]}
             ELSE {[st |-> popped, ret |-> Some(m)] : m \in found}

\* next_match unmarking every entry of the position it pops.
RECURSIVE next_match_unmark_all(_)
next_match_unmark_all(st) ==
    IF st.last_changed = << >> THEN {[st |-> st, ret |-> None]}
    ELSE LET next_pos == Head(st.last_changed)
             other(pos) == pos # next_pos
             popped == [st EXCEPT !.last_changed = SelectSeq(st.last_changed, other)]
             found == FindMatch(popped, next_pos, 1)
         IN  IF found = {} THEN next_match_unmark_all(popped)
             ELSE {[st |-> popped, ret |-> Some(m)] : m \in found}

\* next_match emptying the cells of the match it returns.
RECURSIVE next_match_clearing_match(_)
next_match_clearing_match(st) ==
    IF st.last_changed = << >> THEN {[st |-> st, ret |-> None]}
    ELSE LET next_pos == Head(st.last_changed)
             popped == [st EXCEPT !.last_changed = Tail(st.last_changed)]
             found == FindMatch(popped, next_pos, 1)
         IN  IF found = {} THEN next_match_clearing_match(popped)
             ELSE {[st |-> [popped EXCEPT
                               !.pieces[m.pattern.piece_type] = @ \ m.board_pos,
                               !.empties = @ \cup m.board_pos],
                    ret |-> Some(m)] : m \in found}

\* Board::next_match: the set of its possible outcomes [st, ret].
RECURSIVE next_match(_)
next_match(st) ==
    IF st.last_changed = << >> THEN {[st |-> st, ret |-> None]}
    ELSE LET next_pos == Head(st.last_changed)
             popped == [st EXCEPT !.last_changed = Tail(st.last_changed)]
             found == FindMatch(popped, next_pos, 1)
         IN  IF found = {} THEN next_match(popped)
             ELSE {[st |-> popped, ret |-> Some(m)] : m \in found}

(***************************************************************************)
(* Gravity.                                                                *)
(***************************************************************************)
can_move_pos_down_diagonally(pos, to_west) ==
    IF to_west THEN pos[1] > 0 /\ pos[2] > 0
    ELSE pos[1] < width - 1 /\ pos[2] > 0

move_pos_down_diagonally(pos, to_west) ==
    IF to_west THEN <<pos[1] - 1, pos[2] - 1>> ELSE <<pos[1] + 1, pos[2] - 1>>

\* trickle_column that keeps the empty spaces it has seen below a piece that
\* cannot move South.
RECURSIVE TrickleColumnPastFixed(_, _, _, _, _)
TrickleColumnPastFixed(st, x, y, empty_spaces, moves) ==
    IF y >= height THEN [st |-> st, moves |-> moves]
    ELSE LET current_pos == <<x, y>>
         IN  IF BitIsSet(st.empties, current_pos)
             THEN TrickleColumnPastFixed(st, x, y + 1, Append(empty_spaces, y), moves)
             ELSE IF BitIsSet(st.movable_directions[South], current_pos)
             THEN IF empty_spaces # << >>
                  THEN LET space_to_fill == Head(empty_spaces)
                       IN  TrickleColumnPastFixed(
                               swap_always(st, current_pos, <<x, space_to_fill>>),
                               x, y + 1, Append(Tail(empty_spaces), y),
                               Append(moves, <<current_pos, <<x, space_to_fill>>>>))
                  ELSE TrickleColumnPastFixed(st, x, y + 1, empty_spaces, moves)
             ELSE TrickleColumnPastFixed(st, x, y + 1, empty_spaces, moves)

\* The loop body of trickle_column for rows y .. height - 1.
RECURSIVE TrickleColumnFrom(_, _, _, _, _)
TrickleColumnFrom(st, x, y, empty_spaces, moves) ==
    IF y >= height THEN [st |-> st, moves |-> moves]
    ELSE LET current_pos == <<x, y>>
         IN  IF BitIsSet(st.empties, current_pos)
             THEN TrickleColumnFrom(st, x, y + 1, Append(empty_spaces, y), moves)
             ELSE IF BitIsSet(st.movable_directions[South], current_pos)
             THEN IF empty_spaces # << >>
                  THEN LET space_to_fill == Head(empty_spaces)
                       IN  TrickleColumnFrom(
                               swap_always(st, current_pos, <<x, space_to_fill>>),
                               x, y + 1, Append(Tail(empty_spaces), y),
                               Append(moves, <<current_pos, <<x, space_to_fill>>>>))
                  ELSE TrickleColumnFrom(st, x, y + 1, empty_spaces, moves)
             ELSE TrickleColumnFrom(st, x, y + 1, << >>, moves)

trickle_column(st, x) == TrickleColumnFrom(st, x, 0, << >>, << >>)

\* The while loop of trickle_piece_down.
RECURSIVE LowestEmptyBelow(_, _, _)
LowestEmptyBelow(st, x, next_y) ==
    IF next_y > 0 /\ BitIsSet(st.empties, <<x, next_y - 1>>)
    THEN LowestEmptyBelow(st, x, next_y - 1)
    ELSE next_y

\* trickle_piece_down that asks swap_pieces, with host rules that reject every
\* swap, to move the piece.
trickle_piece_down_by_rules(st, piece_pos) ==
    IF ~BitIsSet(st.movable_directions[South], piece_pos)
    THEN [st |-> st, pos |-> piece_pos]
    ELSE LET next_y == LowestEmptyBelow(st, piece_pos[1], piece_pos[2])
         IN  [st |-> swap_pieces(st, piece_pos, <<piece_pos[1], next_y>>,
                                 [i \in {InputRules[k] : k \in 1 .. Len(InputRules)} |-> FALSE]).st,
              pos |-> <<piece_pos[1], next_y>>]

trickle_piece_down(st, piece_pos) ==
    IF ~BitIsSet(st.movable_directions[South], piece_pos)
    THEN [st |-> st, pos |-> piece_pos]
    ELSE LET next_y == LowestEmptyBelow(st, piece_pos[1], piece_pos[2])
         IN  [st |-> swap_always(st, piece_pos, <<piece_pos[1], next_y>>),
              pos |-> <<piece_pos[1], next_y>>]

\* trickle_piece_to_side that asks only for the South bit of the piece.
trickle_piece_to_side_south_only(st, current_pos, to_west, check_adj) ==
    IF ~can_move_pos_down_diagonally(current_pos, to_west)
    THEN [st |-> st, pos |-> current_pos]
    ELSE LET empty_pos == move_pos_down_diagonally(current_pos, to_west)
             is_empty_pos == BitIsSet(st.empties, empty_pos)
             vertical_dir_board == st.movable_directions[South]
             is_movable_diag == BitIsSet(vertical_dir_board, current_pos)
             adjacent_pos == <<empty_pos[1], current_pos[2]>>
             will_adj_fill_space ==
                 check_adj /\ BitIsSet(vertical_dir_board, adjacent_pos)
                 /\ ~BitIsSet(st.empties, adjacent_pos)
         IN  IF ~is_empty_pos \/ ~is_movable_diag \/ will_adj_fill_space
             THEN [st |-> st, pos |-> current_pos]
             ELSE [st |-> swap_always(st, current_pos, empty_pos), pos |-> empty_pos]

\* trickle_piece_to_side that never expects the adjacent piece to fall into
\* the space.
trickle_piece_to_side_unchecked(st, current_pos, to_west, check_adj) ==
    IF ~can_move_pos_down_diagonally(current_pos, to_west)
    THEN [st |-> st, pos |-> current_pos]
    ELSE LET empty_pos == move_pos_down_diagonally(current_pos, to_west)
             is_empty_pos == BitIsSet(st.empties, empty_pos)
             horizontal_dir_board ==
                 IF to_west THEN st.movable_directions[West]
                 ELSE st.movable_directions[East]
             vertical_dir_board == st.movable_directions[South]
             is_movable_diag == BitIsSet(horizontal_dir_board, current_pos)
                                /\ BitIsSet(vertical_dir_board, current_pos)
         IN  IF ~is_empty_pos \/ ~is_movable_diag
             THEN [st |-> st, pos |-> current_pos]
             ELSE [st |-> swap_always(st, current_pos, empty_pos), pos |-> empty_pos]

trickle_piece_to_side(st, current_pos, to_west, check_adj) ==
    IF ~can_move_pos_down_diagonally(current_pos, to_west)
    THEN [st |-> st, pos |-> current_pos]
    ELSE LET empty_pos == move_pos_down_diagonally(current_pos, to_west)
             is_empty_pos == BitIsSet(st.empties, empty_pos)
             horizontal_dir_board ==
                 IF to_west THEN st.movable_directions[West]
                 ELSE st.movable_directions[East]
             vertical_dir_board == st.movable_directions[South]
             is_movable_diag == BitIsSet(horizontal_dir_board, current_pos)
                                /\ BitIsSet(vertical_dir_board, current_pos)
             adjacent_pos == <<empty_pos[1], current_pos[2]>>
             will_adj_fill_space ==
                 check_adj /\ BitIsSet(vertical_dir_board, adjacent_pos)
                 /\ ~BitIsSet(st.empties, adjacent_pos)
         IN  IF ~is_empty_pos \/ ~is_movable_diag \/ will_adj_fill_space
             THEN [st |-> st, pos |-> current_pos]
             ELSE [st |-> swap_always(st, current_pos, empty_pos), pos |-> empty_pos]

\* trickle_piece_diagonally that tries west only.
trickle_piece_diagonally_west_only(st, piece_pos, check_adj) ==
    trickle_piece_to_side(st, piece_pos, TRUE, check_adj)

\* trickle_piece_diagonally that tries east before west.
trickle_piece_diagonally_east_first(st, piece_pos, check_adj) ==
    LET east == trickle_piece_to_side(st, piece_pos, FALSE, check_adj)
    IN  IF east.pos = piece_pos
        THEN trickle_piece_to_side(east.st, piece_pos, TRUE, check_adj)
        ELSE east

trickle_piece_diagonally(st, piece_pos, check_adj) ==
    LET west == trickle_piece_to_side(st, piece_pos, TRUE, check_adj)
    IN  IF west.pos = piece_pos
        THEN trickle_piece_to_side(west.st, piece_pos, FALSE, check_adj)
        ELSE west

\* trickle_piece without the loop: one fall and one diagonal step.
TricklePieceOnce(st, current_trickled_pos, check_adj, moves) ==
    LET down == trickle_piece_down(st, current_trickled_pos)
        moves_down == IF current_trickled_pos # down.pos
                      THEN Append(moves, <<current_trickled_pos, down.pos>>)
                      ELSE moves
        diag == trickle_piece_diagonally(down.st, down.pos, check_adj)
    IN  IF down.pos = diag.pos THEN [st |-> diag.st, moves |-> moves_down]
        ELSE [st |-> diag.st, moves |-> Append(moves_down, <<down.pos, diag.pos>>)]

\* The loop of trickle_piece.
RECURSIVE TricklePieceLoop(_, _, _, _)
TricklePieceLoop(st, current_trickled_pos, check_adj, moves) ==
    LET down == trickle_piece_down(st, current_trickled_pos)
        moves_down == IF current_trickled_pos # down.pos
                      THEN Append(moves, <<current_trickled_pos, down.pos>>)
                      ELSE moves
        diag == trickle_piece_diagonally(down.st, down.pos, check_adj)
    IN  IF down.pos = diag.pos THEN [st |-> diag.st, moves |-> moves_down]
        ELSE TricklePieceLoop(diag.st, diag.pos, check_adj,
                              Append(moves_down, <<down.pos, diag.pos>>))

\* trickle_piece that does not return early at an empty cell.
trickle_piece_also_empty(st, piece_pos, check_adj) ==
    TricklePieceLoop(st, piece_pos, check_adj, << >>)

trickle_piece(st, piece_pos, check_adj) ==
    IF BitIsSet(st.empties, piece_pos) THEN [st |-> st, moves |-> << >>]
    ELSE TricklePieceLoop(st, piece_pos, check_adj, << >>)

\* The nested loops of trickle_diagonally, from cell k (row-major, bottom row first).
RECURSIVE TrickleDiagonallyFrom(_, _, _)
TrickleDiagonallyFrom(st, k, moves) ==
    IF k >= width * height THEN [st |-> st, moves |-> moves]
    ELSE LET r == trickle_piece(st, <<k % width, k \div width>>, TRUE)
         IN  TrickleDiagonallyFrom(r.st, k + 1, moves \o r.moves)

trickle_diagonally(st) == TrickleDiagonallyFrom(st, 0, << >>)

\* The column loop of trickle taking the columns from right to left.
RECURSIVE TrickleColumnsRightToLeft(_, _, _)
TrickleColumnsRightToLeft(st, x, moves) ==
    IF x >= width THEN [st |-> st, moves |-> moves]
    ELSE LET r == trickle_column(st, width - 1 - x)
         IN  TrickleColumnsRightToLeft(r.st, x + 1, moves \o r.moves)

\* The column loop of trickle.
RECURSIVE TrickleColumnsFrom(_, _, _)
TrickleColumnsFrom(st, x, moves) ==
    IF x >= width THEN [st |-> st, moves |-> moves]
    ELSE LET r == trickle_column(st, x)
         IN  TrickleColumnsFrom(r.st, x + 1, moves \o r.moves)

\* trickle that returns the diagonal moves before the column moves.
trickle_diagonal_moves_first(st) ==
    LET columns == TrickleColumnsFrom(st, 0, << >>)
        diagonal == trickle_diagonally(columns.st)
    IN  [st |-> diagonal.st, moves |-> diagonal.moves \o columns.moves]

trickle(st) ==
    LET columns == TrickleColumnsFrom(st, 0, << >>)
        diagonal == trickle_diagonally(columns.st)
    IN  [st |-> diagonal.st, moves |-> columns.moves \o diagonal.moves]

\* add_and_trickle that trickles its piece as trickle does, with the check of
\* the adjacent column.
add_and_trickle_checking_adjacent(st, pos, new_piece) ==
    LET set == set_piece(st, pos, new_piece)
    IN  trickle_piece(set.st, pos, TRUE)

\* add_and_trickle that trickles the whole board.
add_and_trickle_whole_board(st, pos, new_piece) ==
    LET set == set_piece(st, pos, new_piece)
    IN  trickle(set.st)

add_and_trickle(st, pos, new_piece) ==
    LET set == set_piece(st, pos, new_piece)
    IN  trickle_piece(set.st, pos, FALSE)

(***************************************************************************)
(* The calls a host makes.  call records the last call: its arguments, its *)
(* return value, the swap rules it evaluated and the moves it returned;    *)
(* prev is the BoardState the call started from and calls counts the calls *)
(* made so far.                                                            *)
(***************************************************************************)
InputDirections ==
    {ALL_DIRECTIONS, {}} \cup {ALL_DIRECTIONS \ {d} : d \in ALL_DIRECTIONS}

InputPieces ==
    {Wall, Empty} \cup {Regular("f", d) : d \in InputDirections}
    \cup {Regular("s", ALL_DIRECTIONS)}

Verdicts == [{InputRules[i] : i \in 1 .. Len(InputRules)} -> BOOLEAN]

NoVerdicts == << >>

NoPos == <<0, 0>>

Call(op, first, second, new_piece, ret, verdicts, evaluated, moves) ==
    [op |-> op, first |-> first, second |-> second, piece |-> new_piece,
     ret |-> ret, verdicts |-> verdicts, evaluated |-> evaluated, moves |-> moves,
     panicked |-> FALSE]

Install(st) ==
    /\ width' = width
    /\ height' = height
    /\ pieces' = st.pieces
    /\ empties' = st.empties
    /\ movable_directions' = st.movable_directions
    /\ last_changed' = st.last_changed
    /\ prev' = State
    /\ calls' = calls + 1

\* panic!(..): the call unwinds before it has touched the state or returned.
Panic(op, first, second, new_piece) ==
    /\ Install(State)
    /\ call' = [Call(op, first, second, new_piece, None, NoVerdicts, << >>, << >>)
                   EXCEPT !.panicked = TRUE]

\* A panic ends the run; the host makes at most MaxCalls calls.
Running == calls < MaxCalls /\ ~call.panicked

\* The bounds checks that open piece, set_piece and swap_pieces.
piece_panics(pos) == ~is_within_board(pos)

set_piece_panics(pos) == ~is_within_board(pos)

swap_pieces_panics_first_only(first, second) == ~is_within_board(first)

swap_pieces_panics(first, second) ==
    ~is_within_board(first) \/ ~is_within_board(second)

\* Board::new(BoardState::new(Width, Height), InputPatterns, custom rules)
Init ==
    /\ width = Width
    /\ height = Height
    /\ pieces = BoardStateNew.pieces
    /\ empties = BoardStateNew.empties
    /\ movable_directions = BoardStateNew.movable_directions
    /\ last_changed = BoardStateNew.last_changed
    /\ prev = BoardStateNew
    /\ calls = 0
    /\ call = Call("new", NoPos, NoPos, Wall, None, NoVerdicts, << >>, << >>)

\* Board::piece takes &self: it reads the state and returns the piece.
GetPiece(pos) ==
    /\ Running
    /\ IF piece_panics(pos)
       THEN Panic("piece", pos, pos, Wall)
       ELSE /\ Install(State)
            /\ call' = Call("piece", pos, pos, Wall, piece(State, pos), NoVerdicts,
                            << >>, << >>)

SetPiece(pos, new_piece) ==
    /\ Running
    /\ IF set_piece_panics(pos)
       THEN Panic("set_piece", pos, pos, new_piece)
       ELSE \E r \in {set_piece(State, pos, new_piece)} :
               /\ Install(r.st)
               /\ call' = Call("set_piece", pos, pos, new_piece, r.ret, NoVerdicts,
                               << >>, << >>)

SwapPieces(first, second, verdicts) ==
    /\ Running
    /\ IF swap_pieces_panics(first, second)
       THEN Panic("swap_pieces", first, second, Wall)
       ELSE \E r \in {swap_pieces(State, first, second, verdicts)} :
               /\ Install(r.st)
               /\ call' = Call("swap_pieces", first, second, Wall, r.ret, verdicts,
                               r.evaluated, << >>)

NextMatch ==
    /\ Running
    /\ \E r \in next_match(State) :
          /\ Install(r.st)
          /\ call' = Call("next_match", NoPos, NoPos, Wall, r.ret, NoVerdicts, << >>, << >>)

Trickle ==
    /\ Running
    /\ \E r \in {trickle(State)} :
          /\ Install(r.st)
          /\ call' = Call("trickle", NoPos, NoPos, Wall, None, NoVerdicts, << >>, r.moves)

\* add_and_trickle opens with set_piece, whose bounds check panics.
AddAndTrickle(pos, new_piece) ==
    /\ Running
    /\ IF set_piece_panics(pos)
       THEN Panic("add_and_trickle", pos, pos, new_piece)
       ELSE \E r \in {add_and_trickle(State, pos, new_piece)} :
               /\ Install(r.st)
               /\ call' = Call("add_and_trickle", pos, pos, new_piece, None, NoVerdicts,
                               << >>, r.moves)

Next ==
    \/ \E pos \in Pos : GetPiece(pos)
    \/ \E pos \in Pos, new_piece \in InputPieces : SetPiece(pos, new_piece)
    \/ \E first \in Pos, second \in Pos, verdicts \in Verdicts :
          SwapPieces(first, second, verdicts)
    \/ NextMatch
    \/ Trickle
    \/ \E pos \in Pos, new_piece \in InputPieces : AddAndTrickle(pos, new_piece)

Spec == Init /\ [][Next]_vars

(***************************************************************************)
(* The same host, passing positions on and off the board: off the board in *)
(* x only, in y only, and in both.                                         *)
(***************************************************************************)
OutOfBounds == {<<width, 0>>, <<0, height>>, <<width, height>>}

InputPos == Pos \cup OutOfBounds

NextAnyPos ==
    \/ \E pos \in InputPos : GetPiece(pos)
    \/ \E pos \in InputPos, new_piece \in InputPieces : SetPiece(pos, new_piece)
    \/ \E first \in InputPos, second \in InputPos, verdicts \in Verdicts :
          SwapPieces(first, second, verdicts)
    \/ NextMatch
    \/ Trickle
    \/ \E pos \in InputPos, new_piece \in InputPieces : AddAndTrickle(pos, new_piece)

SpecAnyPos == Init /\ [][NextAnyPos]_vars

(***************************************************************************)
(* A host that restores a saved BoardState and drains the queue of changed *)
(* positions.  The saved state is any board over SavedPieces, as set_piece *)
(* writes it, with any queue of at most MaxQueue positions                 *)
(* left unread: each entry is a position that was set again after the      *)
(* earlier entries were read.                                              *)
(***************************************************************************)
SavedPieces ==
    {Wall, Empty, Regular("f", ALL_DIRECTIONS), Regular("s", ALL_DIRECTIONS)}

Queues == UNION {[1 .. n -> Pos] : n \in 0 .. MaxQueue}

\* The BoardState that set_piece leaves when board[p] has been written to
\* every cell p of a new board: a bitboard for each type in use, the
\* empties, and the movable directions with every direction set for an
\* empty cell and none for a wall.
Saved(board, queue) ==
    LET regular == {p \in Pos : board[p].kind = "Regular"}
    IN  [pieces |-> [t \in {board[p].piece_type : p \in regular} |->
                        {p \in regular : board[p].piece_type = t}],
         empties |-> {p \in Pos : board[p] = Empty},
         movable_directions |->
             [d \in ALL_DIRECTIONS |->
                 {p \in Pos : \/ board[p] = Empty
                              \/ p \in regular /\ d \in board[p].directions}],
         last_changed |-> queue]

\* Board::new(initial_state, InputPatterns, custom rules)
Load(st) ==
    /\ pieces = st.pieces
    /\ empties = st.empties
    /\ movable_directions = st.movable_directions
    /\ last_changed = st.last_changed
    /\ prev = st
    /\ calls = 0
    /\ call = Call("load", NoPos, NoPos, Wall, None, NoVerdicts, << >>, << >>)

\* The board is Width x Height and holds any pieces of SavedPieces, or it is
\* one cell wider or one cell higher and holds empty cells and pieces of one
\* type.
DrainSizes == {<<Width, Height>>, <<Width + 1, Height>>, <<Width, Height + 1>>}

RowPieces == {Empty, Regular("f", ALL_DIRECTIONS)}

InitDrain ==
    \E size \in DrainSizes :
        /\ width = size[1]
        /\ height = size[2]
        /\ \E board \in [Pos -> IF size = <<Width, Height>>
                                THEN SavedPieces ELSE RowPieces],
              queue \in Queues :
              \E st \in {Saved(board, queue)} : Load(st)

NextDrain == NextMatch

SpecDrain == InitDrain /\ [][NextDrain]_vars

(***************************************************************************)
(* A host that restores a saved BoardState and lets the pieces fall.  The  *)
(* board is of any size from 2 x 2 up to MaxSide on a side.  A board of at *)
(* most MaxCells cells holds any pieces of GravityPieces: walls, empty     *)
(* cells, and pieces that can move every way, or every way but South, West *)
(* or East.  A larger board holds walls, empty cells and pieces that can   *)
(* move every way.                                                         *)
(***************************************************************************)
GravitySizes == (2 .. MaxSide) \X (2 .. MaxSide)

TowerPieces == {Wall, Empty, Regular("f", ALL_DIRECTIONS)}

GravityPieces ==
    TowerPieces \cup {Regular("f", ALL_DIRECTIONS \ {d}) : d \in {South, West, East}}

InitGravity ==
    \E size \in GravitySizes :
        /\ width = size[1]
        /\ height = size[2]
        /\ \E board \in [Pos -> IF size[1] * size[2] <= MaxCells
                                THEN GravityPieces ELSE TowerPieces] :
              \E st \in {Saved(board, << >>)} : Load(st)

NextGravity == Trickle

SpecGravity == InitGravity /\ [][NextGravity]_vars

(***************************************************************************)
(* A host that restores a saved BoardState and makes MaxAdds gravity       *)
(* calls: trickle, or add_and_trickle of any piece at any position.  A     *)
(* board of Width x Height cells holds any pieces of AddPieces, which are  *)
(* those of GravityPieces, a piece that can move every way but North and   *)
(* one that can move only South and East; a larger                         *)
(* board, of at most MaxCells cells, holds walls, empty cells and pieces   *)
(* that can move every way or every way but South.                         *)
(***************************************************************************)
AddSizes == {size \in GravitySizes : size[1] * size[2] <= MaxCells}

AddPieces ==
    GravityPieces \cup {Regular("f", ALL_DIRECTIONS \ {North}), Regular("f", {South, East})}

SolidPieces == {Wall, Empty, Regular("f", ALL_DIRECTIONS),
                Regular("f", ALL_DIRECTIONS \ {South})}

InitAdd ==
    \E size \in AddSizes :
        /\ width = size[1]
        /\ height = size[2]
        /\ \E board \in [Pos -> IF size[1] * size[2] <= Width * Height
                                THEN AddPieces ELSE SolidPieces] :
              \E st \in {Saved(board, << >>)} : Load(st)

NextAdd ==
    \/ calls < MaxAdds /\ Trickle
    \/ calls < MaxAdds /\ \E pos \in Pos, new_piece \in AddPieces :
                             AddAndTrickle(pos, new_piece)

SpecAdd == InitAdd /\ [][NextAdd]_vars

(***************************************************************************)
(* A host that restores a saved BoardState and makes MaxSwaps calls of     *)
(* swap_pieces, with any two positions and any verdicts of its rules.  The *)
(* board has more than Width x Height and at most MaxCells cells: walls,   *)
(* empty cells, pieces of one type movable North and East and pieces of    *)
(* another type movable South and West.                                    *)
(***************************************************************************)
SwapBoardPieces ==
    {Wall, Empty, Regular("f", {North, East}), Regular("s", {South, West})}

InitSwap ==
    \E size \in {size \in AddSizes : size[1] * size[2] > Width * Height} :
        /\ width = size[1]
        /\ height = size[2]
        /\ \E board \in [Pos -> SwapBoardPieces] :
              \E st \in {Saved(board, << >>)} : Load(st)

NextSwap ==
    calls < MaxSwaps /\ \E first \in Pos, second \in Pos, verdicts \in Verdicts :
                           SwapPieces(first, second, verdicts)

SpecSwap == InitSwap /\ [][NextSwap]_vars

(***************************************************************************)
(* The loops of the engine, one iteration a step.  Board is single-        *)
(* threaded and synchronous: a call runs to completion before the host can *)
(* make another, so a call in progress always takes its next step.  While  *)
(* a loop runs, call.op names it, call.first is the cell trickle_piece was *)
(* called for, call.second is current_trickled_pos and call.moves the      *)
(* moves made so far; prev is the BoardState the call started from.  The   *)
(* host restores a board of more than Width x Height and at most MaxCells  *)
(* cells of TowerPieces, makes MaxAdds gravity calls and then calls        *)
(* next_match.                                                             *)
(***************************************************************************)
AddLoop == "add_and_trickle: trickle_piece loop"

TrickleLoop == "trickle: trickle_piece loop"

MatchLoop == "next_match: while loop"

InLoop == call.op \in {AddLoop, TrickleLoop, MatchLoop}

\* A step inside a call: the state changes, the call stays the same call.
Continue(st) ==
    /\ width' = width
    /\ height' = height
    /\ pieces' = st.pieces
    /\ empties' = st.empties
    /\ movable_directions' = st.movable_directions
    /\ last_changed' = st.last_changed
    /\ prev' = prev
    /\ calls' = calls

CellPos(k) == <<k % width, k \div width>>

\* The for loops of trickle_diagonally from cell k on (row-major, bottom row
\* first): the cells for which trickle_piece returns at once are passed.
RECURSIVE NextPieceFrom(_, _)
NextPieceFrom(st, k) ==
    IF k >= width * height THEN k
    ELSE IF BitIsSet(st.empties, CellPos(k)) THEN NextPieceFrom(st, k + 1)
    ELSE k

\* trickle_diagonally reaches cell k: it enters the loop of trickle_piece for
\* that cell, or trickle returns when the cells are exhausted.
VisitFrom(st, k, moves) ==
    LET next == NextPieceFrom(st, k)
    IN  IF next >= width * height
        THEN Call("trickle", NoPos, NoPos, Wall, None, NoVerdicts, << >>, moves)
        ELSE Call(TrickleLoop, CellPos(next), CellPos(next), Wall, None, NoVerdicts,
                  << >>, moves)

BeginTrickle ==
    /\ ~InLoop /\ Running
    /\ \E columns \in {TrickleColumnsFrom(State, 0, << >>)} :
          /\ Install(columns.st)
          /\ call' = VisitFrom(columns.st, 0, columns.moves)

BeginAddAndTrickle(pos, new_piece) ==
    /\ ~InLoop /\ Running
    /\ \E set \in {set_piece(State, pos, new_piece)} :
          /\ Install(set.st)
          /\ call' = Call(IF BitIsSet(set.st.empties, pos)
                          THEN "add_and_trickle" ELSE AddLoop,
                          pos, pos, new_piece, None, NoVerdicts, << >>, << >>)

\* One iteration of the loop of trickle_piece.
StepTricklePiece ==
    /\ call.op \in {AddLoop, TrickleLoop}
    /\ \E down \in {trickle_piece_down(State, call.second)} :
       \E moves_down \in {IF call.second # down.pos
                          THEN Append(call.moves, <<call.second, down.pos>>)
                          ELSE call.moves} :
       \E diag \in {trickle_piece_diagonally(down.st, down.pos, call.op = TrickleLoop)} :
          /\ Continue(diag.st)
          /\ call' =
                IF down.pos # diag.pos
                THEN [call EXCEPT !.second = diag.pos,
                                  !.moves = Append(moves_down, <<down.pos, diag.pos>>)]
                ELSE IF call.op = AddLoop
                THEN [call EXCEPT !.op = "add_and_trickle", !.second = call.first,
                                  !.moves = moves_down]
                ELSE VisitFrom(diag.st, call.first[2] * width + call.first[1] + 1,
                               moves_down)

BeginNextMatch ==
    /\ ~InLoop /\ Running
    /\ Install(State)
    /\ call' = Call(MatchLoop, NoPos, NoPos, Wall, None, NoVerdicts, << >>, << >>)

\* The while loop of next_match reading the front of the queue without
\* popping it.
StepNextMatchNoPop ==
    /\ call.op = MatchLoop
    /\ IF last_changed = << >>
       THEN /\ Continue(State)
            /\ call' = [call EXCEPT !.op = "next_match"]
       ELSE \E found \in {FindMatch(State, Head(last_changed), 1)} :
               /\ Continue(State)
               /\ IF found = {} THEN call' = call
                  ELSE \E m \in found :
                          call' = [call EXCEPT !.op = "next_match", !.ret = Some(m)]

\* One iteration of the while loop of next_match; pop_front()? returns None
\* when the queue is empty.
StepNextMatch ==
    /\ call.op = MatchLoop
    /\ IF last_changed = << >>
       THEN /\ Continue(State)
            /\ call' = [call EXCEPT !.op = "next_match"]
       ELSE \E popped \in {[State EXCEPT !.last_changed = Tail(last_changed)]} :
            \E found \in {FindMatch(popped, Head(last_changed), 1)} :
               /\ Continue(popped)
               /\ IF found = {} THEN call' = call
                  ELSE \E m \in found :
                          call' = [call EXCEPT !.op = "next_match", !.ret = Some(m)]

InitSteps ==
    \E size \in {size \in AddSizes : size[1] * size[2] > Width * Height} :
        /\ width = size[1]
        /\ height = size[2]
        /\ \E board \in [Pos -> TowerPieces] :
              \E st \in {Saved(board, << >>)} : Load(st)

NextSteps ==
    \/ calls < MaxAdds /\ BeginTrickle
    \/ calls < MaxAdds /\ \E pos \in Pos, new_piece \in AddPieces :
                             BeginAddAndTrickle(pos, new_piece)
    \/ StepTricklePiece
    \/ calls >= MaxAdds /\ BeginNextMatch
    \/ StepNextMatch

SpecSteps ==
    /\ InitSteps
    /\ [][NextSteps]_vars
    /\ WF_vars(StepTricklePiece)
    /\ WF_vars(StepNextMatch)

(***************************************************************************)
(* Properties.                                                             *)
(***************************************************************************)
Cells(st) == [pos \in Pos |-> piece(st, pos)]

PieceDirections(pc) ==
    IF pc.kind = "Empty" THEN ALL_DIRECTIONS
    ELSE IF pc.kind = "Wall" THEN {}
    ELSE pc.directions

RECURSIVE MovesAsMarks(_)
MovesAsMarks(moves) ==
    IF moves = << >> THEN << >>
    ELSE <<Head(moves)[1], Head(moves)[2]>> \o MovesAsMarks(Tail(moves))

IsSuffix(s, t) == \E k \in 0 .. Len(t) : s = SubSeq(t, k + 1, Len(t))

IsSwap == call.op = "swap_pieces"

AllCustomAccept == \A i \in 1 .. Len(InputRules) : call.verdicts[InputRules[i]]

\* C1: in every reachable state each cell has at most one bit set among the
\* empties board and all the per-type boards.
OneBitPerCell ==
    \A pos \in Pos :
        Cardinality(TypesAt(State, pos)) + (IF BitIsSet(empties, pos) THEN 1 ELSE 0) <= 1

OneBitPerCellWitness ==
    /\ IsSwap /\ call.ret = TRUE /\ call.first # call.second
    /\ piece(State, call.first).kind = "Regular"
    /\ piece(State, call.second).kind = "Regular"
    /\ piece(State, call.first).piece_type # piece(State, call.second).piece_type

\* C2: in every reachable state an Empty cell has all four movability bits
\* set and a Wall cell has none, also after swaps and gravity moves.
EmptyAllWallNone ==
    \A pos \in Pos :
        /\ piece(State, pos) = Empty =>
              get_movable_directions(State, pos) = ALL_DIRECTIONS
        /\ piece(State, pos) = Wall => get_movable_directions(State, pos) = {}

EmptyAllWallNoneWitness ==
    /\ call.op = "trickle" /\ call.moves # << >>
    /\ \E pos \in Pos : piece(State, pos) = Empty
    /\ \E pos \in Pos : piece(State, pos) = Wall

\* C3: the queue of changed positions grows only by p for set_piece(p, _),
\* by a then b for a successful swap of a # b, and by from then to for each
\* gravity move in the order of the returned moves; a rejected swap, a
\* self-swap and piece() add nothing and next_match only removes from the
\* front.
QueueGrowth ==
    /\ call.op = "new" => last_changed = << >>
    /\ call.op = "piece" => last_changed = prev.last_changed
    /\ call.op = "set_piece" => last_changed = Append(prev.last_changed, call.first)
    /\ IsSwap =>
          last_changed =
              IF call.ret = TRUE /\ call.first # call.second
              THEN prev.last_changed \o <<call.first, call.second>>
              ELSE prev.last_changed
    /\ call.op = "trickle" =>
          last_changed = prev.last_changed \o MovesAsMarks(call.moves)
    /\ call.op = "add_and_trickle" =>
          last_changed =
              Append(prev.last_changed, call.first) \o MovesAsMarks(call.moves)
    /\ call.op = "next_match" => IsSuffix(last_changed, prev.last_changed)

QueueGrowthWitness ==
    /\ call.op = "add_and_trickle" /\ call.moves # << >>
    /\ prev.last_changed # << >>
    /\ \E i, j \in 1 .. Len(last_changed) : i # j /\ last_changed[i] = last_changed[j]

\* C4: set_piece(p, X) returns the piece that was at p and leaves exactly X
\* at p, movable directions included, whatever the old piece was.
SetPieceReturnsOld ==
    call.op = "set_piece" =>
        /\ call.ret = piece(prev, call.first)
        /\ piece(State, call.first) = call.piece

SetPieceReturnsOldWitness ==
    /\ call.op = "set_piece"
    /\ call.ret.kind = "Regular" /\ call.piece.kind = "Regular"
    /\ call.ret.directions = {}
    /\ call.piece.directions = ALL_DIRECTIONS \ {South}
    /\ call.ret.piece_type = call.piece.piece_type

\* C5: a swap_pieces call that returns false leaves every cell and the queue
\* as they were.
RejectedSwapChangesNothing ==
    IsSwap /\ call.ret = FALSE =>
        /\ Cells(State) = Cells(prev)
        /\ last_changed = prev.last_changed
        /\ State = prev

RejectedSwapChangesNothingWitness ==
    /\ IsSwap /\ call.ret = FALSE /\ call.first # call.second
    /\ Len(call.evaluated) >= 2
    /\ piece(prev, call.first).kind = "Regular"
    /\ piece(prev, call.second).kind = "Regular"
    /\ prev.last_changed # << >>

\* C6: a swap_pieces(a, b) call with a # b that returns true exchanges the
\* whole contents of the two cells, type and movable directions, and
\* changes no other cell.
SwapExchangesCells ==
    IsSwap /\ call.ret = TRUE /\ call.first # call.second =>
        /\ piece(State, call.first) = piece(prev, call.second)
        /\ piece(State, call.second) = piece(prev, call.first)
        /\ \A pos \in Pos \ {call.first, call.second} :
              piece(State, pos) = piece(prev, pos)

SwapExchangesCellsWitness ==
    /\ IsSwap /\ call.ret = TRUE /\ call.first # call.second
    /\ piece(prev, call.first).kind = "Regular"
    /\ piece(prev, call.second).kind = "Regular"
    /\ piece(prev, call.first).piece_type = piece(prev, call.second).piece_type
    /\ piece(prev, call.first).directions # piece(prev, call.second).directions

\* C7: swap_pieces(p, p) returns true whatever is at p unless a custom rule
\* rejects the pair, changes no cell and adds nothing to the queue.
SelfSwapIsNoOp ==
    IsSwap /\ call.first = call.second =>
        /\ AllCustomAccept => call.ret = TRUE
        /\ Cells(State) = Cells(prev)
        /\ last_changed = prev.last_changed

SelfSwapIsNoOpWitness ==
    /\ IsSwap /\ call.first = call.second /\ call.ret = TRUE
    /\ piece(prev, call.first).kind = "Regular"
    /\ piece(prev, call.first).directions = {}

\* C8: if the piece at one of the two positions is not movable in a
\* direction in which the other position lies (at any distance, diagonals
\* included), swap_pieces returns false and leaves both cells unchanged,
\* whatever the other piece is and whatever the order of the arguments.
LiesIn(d, from, to) ==
    \/ d = North /\ to[2] > from[2]
    \/ d = South /\ to[2] < from[2]
    \/ d = East /\ to[1] > from[1]
    \/ d = West /\ to[1] < from[1]

Blocked(st, from, to) ==
    \E d \in ALL_DIRECTIONS :
        LiesIn(d, from, to) /\ d \notin PieceDirections(piece(st, from))

MovabilityGating ==
    IsSwap /\ (Blocked(prev, call.first, call.second)
               \/ Blocked(prev, call.second, call.first)) =>
        /\ call.ret = FALSE
        /\ piece(State, call.first) = piece(prev, call.first)
        /\ piece(State, call.second) = piece(prev, call.second)

MovabilityGatingWitness ==
    /\ IsSwap /\ call.ret = FALSE
    /\ call.first[1] # call.second[1] /\ call.first[2] # call.second[2]
    /\ piece(prev, call.first) = Regular("f", ALL_DIRECTIONS)
    /\ piece(prev, call.second).kind = "Regular"
    /\ Blocked(prev, call.second, call.first)

\* C9: the rules are called in a fixed order, the built-in movability rule
\* first and then the custom rules in the order registered, and no rule is
\* called after the first one that returns false.
RuleVerdict(rule) ==
    IF rule = "are_pieces_movable"
    THEN are_pieces_movable(prev, call.first, call.second)
    ELSE call.verdicts[rule]

RuleChainShortCircuits ==
    IsSwap =>
        LET ev == call.evaluated
            n == Len(call.evaluated)
        IN  /\ n >= 1 /\ n <= 1 + Len(InputRules)
            /\ ev = SubSeq(<<"are_pieces_movable">> \o InputRules, 1, n)
            /\ \A i \in 1 .. n - 1 : RuleVerdict(ev[i])
            /\ n < 1 + Len(InputRules) => ~RuleVerdict(ev[n])
            /\ call.ret = RuleVerdict(ev[n])

RuleChainShortCircuitsWitness ==
    /\ IsSwap /\ call.ret = FALSE /\ call.first # call.second
    /\ call.evaluated = <<"are_pieces_movable", "rule_a">>
    /\ call.verdicts["rule_b"] = TRUE

IsOffBoard(pos) == pos[1] >= width \/ pos[2] >= height

\* C11: piece, set_piece and swap_pieces panic whenever a position argument
\* has x >= width or y >= height, whichever argument of swap_pieces it is;
\* the panicking call has modified no cell and no queue entry and, for
\* swap_pieces, has evaluated no swap rule.
OutOfBoundsPanics ==
    /\ call.op \in {"piece", "set_piece"} /\ IsOffBoard(call.first) => call.panicked
    /\ call.op = "swap_pieces" /\ (IsOffBoard(call.first) \/ IsOffBoard(call.second))
          => call.panicked
    /\ call.panicked => State = prev /\ call.evaluated = << >>

OutOfBoundsPanicsWitness ==
    /\ call.op = "swap_pieces" /\ call.panicked
    /\ ~IsOffBoard(call.first) /\ IsOffBoard(call.second)
    /\ piece(State, call.first).kind = "Regular"
    /\ last_changed # << >>

\* C12: on the board made by BoardState::new every cell is a Wall and the
\* queue is empty: piece(p) returns Wall for every p on the board, next_match
\* returns None, and trickle returns an empty list of moves.
NewBoardIsBlank ==
    /\ call.op = "new" =>
          /\ \A pos \in Pos : piece(State, pos) = Wall
          /\ last_changed = << >>
    /\ calls = 1 /\ call.op = "piece" => call.ret = Wall
    /\ calls = 1 /\ call.op = "next_match" => call.ret = None
    /\ calls = 1 /\ call.op = "trickle" => call.moves = << >> /\ State = prev

NewBoardIsBlankWitness ==
    /\ calls = 1 /\ call.op = "trickle"
    /\ \A pos \in Pos : piece(State, pos) = Wall

(***************************************************************************)
(* What it means for a position to match, said of the cells themselves.    *)
(***************************************************************************)
IsNextMatch == call.op = "next_match"

HoldsType(st, pos, t) ==
    /\ pos \in Pos
    /\ piece(st, pos).kind = "Regular"
    /\ piece(st, pos).piece_type = t

Translate(offsets, v) == {<<o[1] + v[1], o[2] + v[2]>> : o \in offsets}

\* Every copy of the offsets moved by one vector that lies on the board.
Copies(offsets) ==
    LET xs == {o[1] : o \in offsets}
        ys == {o[2] : o \in offsets}
        vectors == (0 - MaxOf(xs) .. width - 1) \X (0 - MaxOf(ys) .. height - 1)
    IN  {c \in {Translate(offsets, v) : v \in vectors} : c \subseteq Pos}

\* The copies of the pattern's shape that contain pos and are filled with
\* the pattern's type.
Placements(st, pattern, pos) ==
    {c \in Copies(pattern.spaces) :
        pos \in c /\ \A q \in c : HoldsType(st, q, pattern.piece_type)}

MatchesAt(st, pos) ==
    \E i \in 1 .. Len(InputPatterns) : Placements(st, InputPatterns[i], pos) # {}

\* C13: next_match returns the match of the earliest queued position that
\* currently matches; the positions queued before it, which do not match,
\* are dropped, and the positions queued after it stay in the queue in
\* their order, to be reported by the later calls.
FifoOrder ==
    IsNextMatch =>
        LET q == prev.last_changed
            matching == {k \in 1 .. Len(q) : MatchesAt(prev, q[k])}
        IN  IF matching = {} THEN call.ret = None
            ELSE /\ call.ret.kind = "Some"
                 /\ call.ret.value.changed_pos = q[MinOf(matching)]
                 /\ last_changed = SubSeq(q, MinOf(matching) + 1, Len(q))

FifoOrderWitness ==
    /\ IsNextMatch /\ call.ret.kind = "Some"
    /\ Len(prev.last_changed) = 3 /\ Len(last_changed) = 1
    /\ ~MatchesAt(prev, prev.last_changed[1])
    /\ MatchesAt(prev, last_changed[1])
    /\ last_changed[1] # call.ret.value.changed_pos

\* C14: next_match returns None only when it has emptied the queue: after a
\* None the queue is empty, and when some queued position matches the call
\* returns Some.  Every call on a non-empty queue shortens it by at least
\* one entry, so a queue of n entries is drained within n + 1 calls, and a
\* call on the empty queue returns None and leaves it empty.
NoneOnlyWhenDrained ==
    IsNextMatch =>
        LET q == prev.last_changed
        IN  /\ call.ret = None => last_changed = << >>
            /\ (\E k \in 1 .. Len(q) : MatchesAt(prev, q[k])) => call.ret.kind = "Some"
            /\ q # << >> => Len(last_changed) < Len(q)
            /\ q = << >> => call.ret = None /\ last_changed = << >>

NoneOnlyWhenDrainedWitness ==
    /\ IsNextMatch /\ calls = MaxCalls
    /\ call.ret = None /\ prev.last_changed = << >>
    /\ \E pos \in Pos : piece(State, pos).kind = "Regular"

Examined == SubSeq(prev.last_changed, 1, Len(prev.last_changed) - Len(last_changed))

\* C16: when an examined position p holds a Regular piece of type t and, for
\* some registered pattern of type t and some offset o of it, the pattern
\* anchored at p - o lies on the board with all its cells of type t, then
\* next_match returns a match with changed position p instead of
\* discarding p, whether or not the other cells are in the queue.
CompleteOverVariants ==
    IsNextMatch =>
        \A j \in 1 .. Len(Examined) :
            LET p == Examined[j]
            IN  (\E i \in 1 .. Len(InputPatterns) :
                    \E o \in InputPatterns[i].spaces :
                        LET cells == Translate(InputPatterns[i].spaces,
                                               <<p[1] - o[1], p[2] - o[2]>>)
                        IN  \A q \in cells :
                                HoldsType(prev, q, InputPatterns[i].piece_type))
                => /\ call.ret.kind = "Some"
                   /\ call.ret.value.changed_pos = p
                   /\ j = Len(Examined)

\* The changed position is not at the pattern's origin, and no other cell
\* of the match is in the queue.
CompleteOverVariantsWitness ==
    /\ IsNextMatch /\ call.ret.kind = "Some"
    /\ \E pos \in call.ret.value.board_pos :
          \/ pos[1] < call.ret.value.changed_pos[1]
          \/ pos[2] < call.ret.value.changed_pos[2]
    /\ \A k \in 1 .. Len(prev.last_changed) :
          prev.last_changed[k] \in call.ret.value.board_pos
              => prev.last_changed[k] = call.ret.value.changed_pos

\* C17: a pattern is a shape with no fixed origin: when the position at the
\* head of the queue lies in a copy of the offsets a pattern was registered
\* with, moved by any vector (also towards lower x and y than the
\* registered offsets), and every cell of the copy holds the pattern's
\* type, next_match returns a match with that position as changed position;
\* and the positions of every returned match are such a copy.
PatternHasNoOrigin ==
    IsNextMatch =>
        /\ prev.last_changed # << >> =>
              LET p == Head(prev.last_changed)
              IN  (\E i \in 1 .. Len(InputSpaces) :
                      \E c \in Copies(InputSpaces[i]) :
                          /\ p \in c
                          /\ \A q \in c : HoldsType(prev, q, InputPatterns[i].piece_type))
                  => /\ call.ret.kind = "Some"
                     /\ call.ret.value.changed_pos = p
        /\ call.ret.kind = "Some" =>
              \E i \in 1 .. Len(InputSpaces) :
                  /\ call.ret.value.pattern = InputPatterns[i]
                  /\ call.ret.value.board_pos \in Copies(InputSpaces[i])

\* The pattern registered with the offsets (2, 3), (3, 3) is matched by the
\* pieces at (0, 0), (1, 0), with (0, 0) as the changed position.
PatternHasNoOriginWitness ==
    /\ IsNextMatch /\ call.ret.kind = "Some"
    /\ call.ret.value.pattern = InputPatterns[1]
    /\ call.ret.value.changed_pos = <<0, 0>>
    /\ call.ret.value.board_pos = {<<0, 0>>, <<1, 0>>}
    /\ \A o \in InputSpaces[1] : \A pos \in call.ret.value.board_pos :
          pos[1] < o[1] /\ pos[2] < o[2]

Count(seq, x) == Cardinality({k \in 1 .. Len(seq) : seq[k] = x})

\* C18: the entries of a position that is queued several times are checked
\* one by one: for a position p that matches, a call that returns p as the
\* changed position takes exactly one entry of p out of the queue and any
\* other call takes none, so that with the board unchanged p is returned
\* once for each of its entries; a position that does not match loses one
\* entry each time it is examined.
DuplicatesCheckedIndependently ==
    IsNextMatch =>
        \A p \in Pos :
            IF MatchesAt(prev, p)
            THEN Count(last_changed, p)
                     = Count(prev.last_changed, p)
                          - (IF call.ret.kind = "Some" /\ call.ret.value.changed_pos = p
                             THEN 1 ELSE 0)
            ELSE Count(last_changed, p)
                     = Count(prev.last_changed, p) - Count(Examined, p)

\* A call returns p while the next entry of the queue is p again: the
\* following call examines that entry against the same board.
DuplicatesCheckedIndependentlyWitness ==
    /\ IsNextMatch /\ call.ret.kind = "Some"
    /\ last_changed # << >>
    /\ Head(last_changed) = call.ret.value.changed_pos
    /\ Count(prev.last_changed, call.ret.value.changed_pos) >= 2

Reverse(seq) == [k \in 1 .. Len(seq) |-> seq[Len(seq) + 1 - k]]

\* C19: of the registered patterns that have a filled placement around the
\* examined position, next_match returns one of the highest rank: no
\* pattern of a higher rank than the returned one is satisfiable there.
\* The order in which the patterns are passed to Board::new does not
\* matter: passed in the reverse order they are checked in the same order.
RankPrecedence ==
    /\ SortByRankDesc(Reverse(InputPatterns)) = SortByRankDesc(InputPatterns)
    /\ IsNextMatch /\ call.ret.kind = "Some" =>
          \A i \in 1 .. Len(InputPatterns) :
              InputPatterns[i].rank > call.ret.value.pattern.rank
                  => Placements(prev, InputPatterns[i], call.ret.value.changed_pos) = {}

\* Both patterns are satisfiable at the changed position; the one of rank 2,
\* passed second to Board::new, is returned.
RankPrecedenceWitness ==
    /\ IsNextMatch /\ call.ret.kind = "Some"
    /\ call.ret.value.pattern = InputPatterns[2]
    /\ InputPatterns[2].rank > InputPatterns[1].rank
    /\ Placements(prev, InputPatterns[1], call.ret.value.changed_pos) # {}

\* C20: when trickle has returned, no cell holds a Regular piece that is
\* movable South and has an Empty cell directly below it (same x, y - 1).
GravityAtRest ==
    call.op = "trickle" =>
        \A pos \in Pos :
            /\ piece(State, pos).kind = "Regular"
            /\ South \in piece(State, pos).directions
            /\ pos[2] > 0
            => piece(State, <<pos[1], pos[2] - 1>>) # Empty

\* A trickle on a board three cells high in which a piece moved diagonally
\* and then fell, and a piece that cannot move South stays above an Empty
\* cell.
GravityAtRestWitness ==
    /\ call.op = "trickle" /\ height = 3
    /\ \E k \in 1 .. Len(call.moves) - 1 :
          /\ call.moves[k][1][1] # call.moves[k][2][1]
          /\ call.moves[k + 1][1] = call.moves[k][2]
          /\ call.moves[k + 1][2][1] = call.moves[k][2][1]
    /\ \E pos \in Pos :
          /\ pos[2] > 0
          /\ piece(State, pos).kind = "Regular"
          /\ piece(State, <<pos[1], pos[2] - 1>>) = Empty

\* C21: a trickle that immediately follows a trickle returns no moves and
\* changes no cell.
TrickleIdempotent ==
    call.op = "trickle" /\ calls >= 2 =>
        /\ call.moves = << >>
        /\ Cells(State) = Cells(prev)

(***************************************************************************)
(* The moves a gravity call returned, replayed on the board the gravity    *)
(* phase started from: for trickle the board before the call, for          *)
(* add_and_trickle the board after its set_piece.                          *)
(***************************************************************************)
IsGravity == call.op \in {"trickle", "add_and_trickle"} /\ ~call.panicked

GravityStart ==
    IF call.op = "add_and_trickle"
    THEN Cells(set_piece(prev, call.first, call.piece).st)
    ELSE Cells(prev)

Exchange(cells, move) ==
    [cells EXCEPT ![move[1]] = cells[move[2]], ![move[2]] = cells[move[1]]]

RECURSIVE Replay(_, _, _)
Replay(cells, moves, k) ==
    IF k = 0 THEN cells
    ELSE Exchange(Replay(cells, moves, k - 1), moves[k])

\* The board on which move k of the last call was made.
BoardAt(k) == Replay(GravityStart, call.moves, k - 1)

FallsSouth(pc) == pc.kind = "Regular" /\ South \in pc.directions

Fixed(pc) == pc = Wall \/ (pc.kind = "Regular" /\ South \notin pc.directions)

IsVertical(move) == move[1][1] = move[2][1]

IsDiagonal(move) == move[1][1] # move[2][1]

\* C22: during trickle and add_and_trickle a Wall and a Regular piece not
\* movable South stay where they are, no move takes one of them, and every
\* cell a vertical move (x, y1) -> (x, y2) reaches or passes, (x, y) with
\* y2 <= y < y1, was Empty when the move was made.
FixedPiecesStay ==
    IsGravity =>
        /\ \A pos \in Pos :
              Fixed(GravityStart[pos]) => piece(State, pos) = GravityStart[pos]
        /\ \A k \in 1 .. Len(call.moves) :
              LET move == call.moves[k]
              IN  /\ ~Fixed(BoardAt(k)[move[1]])
                  /\ ~Fixed(BoardAt(k)[move[2]])
                  /\ IsVertical(move) =>
                        \A y \in move[2][2] .. move[1][2] - 1 :
                            BoardAt(k)[<<move[1][1], y>>] = Empty

\* A trickle in which a piece fell two cells while a Wall or a piece not
\* movable South stayed above an Empty cell.
FixedPiecesStayWitness ==
    /\ call.op = "trickle"
    /\ \E k \in 1 .. Len(call.moves) :
          /\ IsVertical(call.moves[k])
          /\ call.moves[k][1][2] - call.moves[k][2][2] >= 2
    /\ \E pos \in Pos :
          /\ pos[2] > 0
          /\ Fixed(piece(State, pos))
          /\ piece(State, <<pos[1], pos[2] - 1>>) = Empty

\* The cell beside the piece of a diagonal move, above the cell it moves to.
SideOf(move) == <<move[2][1], move[1][2]>>

\* The cell directly below the piece of a move.
BelowOf(move) == <<move[1][1], move[1][2] - 1>>

DiagonalIsLegal(cells, from, side, during_trickle) ==
    LET to == <<IF side = West THEN from[1] - 1 ELSE from[1] + 1, from[2] - 1>>
    IN  /\ to \in Pos
        /\ cells[to] = Empty
        /\ cells[from].kind = "Regular"
        /\ {side, South} \subseteq cells[from].directions
        /\ ~(during_trickle /\ FallsSouth(cells[<<to[1], from[2]>>]))

MovesWest(move) == move[2][1] < move[1][1]

MovesEast(move) == move[2][1] > move[1][1]

\* C24: a piece that trickle or add_and_trickle moves down-east could not, on
\* the board of that move, move down-west; where both moves are legal the
\* recorded move is the down-west one.
LeftPreferred ==
    IsGravity =>
        \A k \in 1 .. Len(call.moves) :
            MovesEast(call.moves[k]) =>
                ~DiagonalIsLegal(BoardAt(k), call.moves[k][1], West, call.op = "trickle")

\* A piece moved down-west on a board on which it could also have moved
\* down-east.
LeftPreferredWitness ==
    /\ IsGravity
    /\ \E k \in 1 .. Len(call.moves) :
          /\ MovesWest(call.moves[k])
          /\ DiagonalIsLegal(BoardAt(k), call.moves[k][1], East, call.op = "trickle")

\* The board state with every Regular piece made movable North.
MovableNorth(st) ==
    [st EXCEPT !.movable_directions[North] =
                   @ \cup UNION {st.pieces[t] : t \in DOMAIN st.pieces}]

\* C25: a move from (x, y) to (x - 1, y - 1) is made only by a piece movable
\* West and South, a move to (x + 1, y - 1) only by a piece movable East and
\* South, and both only into an Empty cell of the board; the moves are those
\* made when every piece is movable North as well.
DiagonalMovesAreLegal ==
    IsGravity =>
        /\ \A k \in 1 .. Len(call.moves) :
              LET move == call.moves[k]
                  mover == BoardAt(k)[move[1]]
              IN  IsDiagonal(move) =>
                      /\ move[2] \in Pos
                      /\ move[2][2] = move[1][2] - 1
                      /\ MovesWest(move) => move[2][1] = move[1][1] - 1
                      /\ MovesEast(move) => move[2][1] = move[1][1] + 1
                      /\ BoardAt(k)[move[2]] = Empty
                      /\ mover.kind = "Regular"
                      /\ South \in mover.directions
                      /\ MovesWest(move) => West \in mover.directions
                      /\ MovesEast(move) => East \in mover.directions
        /\ call.op = "trickle" => call.moves = trickle(MovableNorth(prev)).moves
        /\ call.op = "add_and_trickle" /\ call.piece.kind = "Regular" =>
              call.moves =
                  add_and_trickle(MovableNorth(prev), call.first,
                                  Regular(call.piece.piece_type,
                                          call.piece.directions \cup {North})).moves

\* A piece movable only South and East moved down-east on a board on which a
\* piece movable every way would have moved down-west.
DiagonalMovesAreLegalWitness ==
    /\ IsGravity
    /\ \E k \in 1 .. Len(call.moves) :
          LET move == call.moves[k]
          IN  /\ MovesEast(move)
              /\ BoardAt(k)[move[1]] = Regular("f", {South, East})
              /\ DiagonalIsLegal([BoardAt(k) EXCEPT ![move[1]] = Regular("f", ALL_DIRECTIONS)],
                                 move[1], West, call.op = "trickle")

\* C26: the moves trickle or add_and_trickle returned, applied in order as
\* exchanges of two cells to the board the gravity phase started from, give the
\* board after the call; when a move (from, to) is applied, from holds a
\* Regular piece, to is Empty, to is lower than from and at most one column
\* away.
MovesAreExecutionLog ==
    IsGravity =>
        /\ Replay(GravityStart, call.moves, Len(call.moves)) = Cells(State)
        /\ \A k \in 1 .. Len(call.moves) :
              LET move == call.moves[k]
              IN  /\ move[1] \in Pos /\ move[2] \in Pos
                  /\ BoardAt(k)[move[1]].kind = "Regular"
                  /\ BoardAt(k)[move[2]] = Empty
                  /\ move[2][2] < move[1][2]
                  /\ move[2][1] - move[1][1] \in {-1, 0, 1}

\* A trickle that returned a vertical and a diagonal move, one of them out of
\* a cell that an earlier move had moved a piece into.
MovesAreExecutionLogWitness ==
    /\ call.op = "trickle"
    /\ \E k \in 1 .. Len(call.moves) : IsVertical(call.moves[k])
    /\ \E k \in 1 .. Len(call.moves) : IsDiagonal(call.moves[k])
    /\ \E j \in 1 .. Len(call.moves), k \in 1 .. Len(call.moves) :
          j < k /\ call.moves[j][2] = call.moves[k][1]

\* The BoardState the gravity phase of the last call started from.
GravityStartState ==
    IF call.op = "add_and_trickle" THEN set_piece(prev, call.first, call.piece).st
    ELSE prev

\* The first k moves made by swap_always, whatever the swap rules say.
RECURSIVE SwapAlwaysAll(_, _, _)
SwapAlwaysAll(st, moves, k) ==
    IF k = 0 THEN st
    ELSE swap_always(SwapAlwaysAll(st, moves, k - 1), moves[k][1], moves[k][2])

\* Host rules that reject every swap.
RejectEverySwap == [rule \in {InputRules[i] : i \in 1 .. Len(InputRules)} |-> FALSE]

\* C27: trickle and add_and_trickle evaluate no swap rule: the BoardState
\* they leave, cells and change queue, is the one swap_always makes of their
\* moves, which no verdict of the host's rules enters.
GravityBypassesRules ==
    IsGravity =>
        /\ call.evaluated = << >>
        /\ State = SwapAlwaysAll(GravityStartState, call.moves, Len(call.moves))

\* An add_and_trickle made a vertical and a diagonal move, each of which
\* swap_pieces refuses under host rules that reject every swap.
GravityBypassesRulesWitness ==
    /\ call.op = "add_and_trickle" /\ ~call.panicked
    /\ \E k \in 1 .. Len(call.moves) : IsVertical(call.moves[k])
    /\ \E k \in 1 .. Len(call.moves) : IsDiagonal(call.moves[k])
    /\ \A k \in 1 .. Len(call.moves) :
          ~swap_pieces(SwapAlwaysAll(GravityStartState, call.moves, k - 1),
                       call.moves[k][1], call.moves[k][2], RejectEverySwap).ret
    /\ Cells(State) # Cells(GravityStartState)

\* C28: add_and_trickle(p, Empty) and add_and_trickle(p, Wall) return no moves
\* and leave the BoardState set_piece leaves: the same cells, and the change
\* queue with the one new entry p.
AddEmptyOrWallIsSetPiece ==
    call.op = "add_and_trickle" /\ ~call.panicked /\ call.piece \in {Empty, Wall} =>
        /\ call.moves = << >>
        /\ State = set_piece(prev, call.first, call.piece).st
        /\ last_changed = Append(prev.last_changed, call.first)

\* Empty was added in place of a Regular piece above an Empty cell, with a
\* South-movable piece directly above.
AddEmptyOrWallIsSetPieceWitness ==
    /\ call.op = "add_and_trickle" /\ ~call.panicked /\ call.piece = Empty
    /\ call.first[2] > 0 /\ call.first[2] < height - 1
    /\ piece(prev, call.first).kind = "Regular"
    /\ piece(State, <<call.first[1], call.first[2] - 1>>) = Empty
    /\ FallsSouth(piece(State, <<call.first[1], call.first[2] + 1>>))

IsAdd == call.op = "add_and_trickle" /\ ~call.panicked

\* The cells the moves of the last call start from or end in.
MoveCells == UNION {{call.moves[k][1], call.moves[k][2]} : k \in 1 .. Len(call.moves)}

\* Where the piece given to add_and_trickle is when the call returns.
RestingPos ==
    IF call.moves = << >> THEN call.first ELSE call.moves[Len(call.moves)][2]

\* C29: the moves add_and_trickle(p, X) returns form one chain that starts at
\* p, each move starting where the move before it ended, and every cell other
\* than p and the cells of the chain is as it was before the call.
AddMovesOnlyAddedPiece ==
    IsAdd =>
        /\ call.moves # << >> => call.moves[1][1] = call.first
        /\ \A k \in 1 .. Len(call.moves) - 1 : call.moves[k + 1][1] = call.moves[k][2]
        /\ \A pos \in Pos \ ({call.first} \cup MoveCells) :
              piece(State, pos) = piece(prev, pos)
        /\ piece(State, RestingPos) = call.piece

\* The added piece moved twice while another South-movable piece stayed above
\* an Empty cell.
AddMovesOnlyAddedPieceWitness ==
    /\ IsAdd
    /\ Len(call.moves) >= 2
    /\ \E pos \in Pos \ ({call.first} \cup MoveCells) :
          /\ pos[2] > 0
          /\ FallsSouth(piece(State, pos))
          /\ piece(State, <<pos[1], pos[2] - 1>>) = Empty

\* C30: when add_and_trickle(p, X) with a Regular X has returned, the added
\* piece is not movable South, or is on the bottom row, or has a non-empty cell
\* directly below, and it can move diagonally to neither side: the destination
\* is off the board or not Empty, or the piece lacks South or that side.
AddedPieceAtRest ==
    IsAdd /\ call.piece.kind = "Regular" =>
        /\ piece(State, RestingPos) = call.piece
        /\ \/ South \notin call.piece.directions
           \/ RestingPos[2] = 0
           \/ piece(State, <<RestingPos[1], RestingPos[2] - 1>>) # Empty
        /\ \A side \in {West, East} :
              ~DiagonalIsLegal(Cells(State), RestingPos, side, FALSE)

\* The added piece fell and rests above the bottom row beside an Empty cell
\* diagonally below it, which it cannot enter for lack of that side.
AddedPieceAtRestWitness ==
    /\ IsAdd /\ call.piece.kind = "Regular"
    /\ call.moves # << >>
    /\ RestingPos[2] > 0
    /\ South \in call.piece.directions
    /\ \E side \in {West, East} :
          /\ side \notin call.piece.directions
          /\ DiagonalIsLegal([Cells(State) EXCEPT ![RestingPos] = Regular("f", ALL_DIRECTIONS)],
                             RestingPos, side, FALSE)

\* The outcomes the last call can have from the state and with the arguments
\* it was given: the state it leaves, the value and the moves it returns.
Outcome(st, ret, moves) == [st |-> st, ret |-> ret, moves |-> moves]

Outcomes ==
    IF call.op = "set_piece"
    THEN {Outcome(r.st, r.ret, << >>) : r \in {set_piece(prev, call.first, call.piece)}}
    ELSE IF call.op = "swap_pieces"
    THEN {Outcome(r.st, r.ret, << >>) :
             r \in {swap_pieces(prev, call.first, call.second, call.verdicts)}}
    ELSE IF call.op = "next_match"
    THEN {Outcome(r.st, r.ret, << >>) : r \in next_match(prev)}
    ELSE IF call.op = "trickle"
    THEN {Outcome(r.st, None, r.moves) : r \in {trickle(prev)}}
    ELSE IF call.op = "add_and_trickle"
    THEN {Outcome(r.st, None, r.moves) :
             r \in {add_and_trickle(prev, call.first, call.piece)}}
    ELSE {Outcome(State, call.ret, call.moves)}

\* C31: a call made from a given BoardState with given arguments has one
\* outcome: the value it returns, the moves it returns and the state it
\* leaves are the same on every board that makes the call.
Determinism ==
    ~call.panicked => Outcomes = {Outcome(State, call.ret, call.moves)}

\* C32: trickle, add_and_trickle and next_match return.  Every move lowers
\* the piece's row, the piece add_and_trickle adds makes at most height - 1
\* diagonal steps, and next_match pops no more entries than the queue held
\* when it was called.  What the calls return, step by step, is what trickle,
\* add_and_trickle and next_match return.
EveryCallReturns ==
    /\ InLoop ~> ~InLoop
    /\ [](\A k \in 1 .. Len(call.moves) : call.moves[k][2][2] < call.moves[k][1][2])
    /\ [](call.op \in {AddLoop, "add_and_trickle"} =>
             Cardinality({k \in 1 .. Len(call.moves) : IsDiagonal(call.moves[k])})
                 <= height - 1)
    /\ [](call.op \in {MatchLoop, "next_match"} =>
             /\ Len(last_changed) <= Len(prev.last_changed)
             /\ Examined \o last_changed = prev.last_changed)
    /\ [](call.op = "trickle" =>
             trickle(prev) = [st |-> State, moves |-> call.moves])
    /\ [](call.op = "add_and_trickle" =>
             add_and_trickle(prev, call.first, call.piece)
                 = [st |-> State, moves |-> call.moves])
    /\ [](call.op = "next_match" =>
             [st |-> State, ret |-> call.ret] \in next_match(prev))

\* next_match returned None after its loop had popped four or more entries
\* that add_and_trickle had queued in two or more iterations of its loop.
EveryCallReturnsWitness ==
    /\ call.op = "next_match"
    /\ call.ret = None
    /\ Len(Examined) >= 4
    /\ calls = 2

\* The directions in which to lies from from.
Travel(from, to) == {d \in ALL_DIRECTIONS : LiesIn(d, from, to)}

\* C33: when every custom rule accepts, swap_pieces(a, b) with a # b returns
\* true exactly when each of the two pieces is movable in every direction in
\* which the other cell lies from it, whatever the distance; with an Empty
\* cell only the other piece decides, and with a Wall the swap is rejected.
SwapExactlyWhenMovable ==
    IsSwap /\ ~call.panicked /\ AllCustomAccept /\ call.first # call.second =>
        LET a == call.first
            b == call.second
            first_piece == piece(prev, a)
            second_piece == piece(prev, b)
        IN  /\ call.ret = (/\ Travel(a, b) \subseteq PieceDirections(first_piece)
                           /\ Travel(b, a) \subseteq PieceDirections(second_piece))
            /\ second_piece = Empty =>
                  call.ret = (Travel(a, b) \subseteq PieceDirections(first_piece))
            /\ first_piece = Empty =>
                  call.ret = (Travel(b, a) \subseteq PieceDirections(second_piece))
            /\ Wall \in {first_piece, second_piece} => call.ret = FALSE

\* Two Regular pieces two columns and one row apart were swapped.
SwapExactlyWhenMovableWitness ==
    /\ IsSwap /\ AllCustomAccept /\ call.ret = TRUE
    /\ call.second[1] - call.first[1] = 2
    /\ call.second[2] - call.first[2] = 1
    /\ piece(prev, call.first).kind = "Regular"
    /\ piece(prev, call.second).kind = "Regular"
    /\ piece(State, call.first) = piece(prev, call.second)

\* Where the piece given to add_and_trickle is before move k of the call.
AddedPosAt(k) == IF k = 1 THEN call.first ELSE call.moves[k - 1][2]

\* C34: trickle moves no piece diagonally into an Empty cell while the cell
\* directly above that cell holds a non-empty piece movable South;
\* add_and_trickle makes no such check: whenever its piece cannot fall and
\* has an Empty cell diagonally below and the movability to enter it, the next
\* move is that piece's diagonal move.
AdjacentColumnCheck ==
    /\ call.op = "trickle" =>
          \A k \in 1 .. Len(call.moves) :
              IsDiagonal(call.moves[k]) =>
                  ~FallsSouth(BoardAt(k)[SideOf(call.moves[k])])
    /\ IsAdd =>
          \A k \in 1 .. Len(call.moves) + 1 :
              LET pos == AddedPosAt(k)
              IN  /\ pos[2] > 0
                  /\ BoardAt(k)[<<pos[1], pos[2] - 1>>] # Empty
                  /\ \E side \in {West, East} : DiagonalIsLegal(BoardAt(k), pos, side, FALSE)
                  => /\ k <= Len(call.moves)
                     /\ call.moves[k][1] = pos
                     /\ IsDiagonal(call.moves[k])

\* add_and_trickle moved its piece diagonally into an Empty cell with a
\* South-movable piece directly above that cell.
AdjacentColumnCheckWitness ==
    /\ IsAdd
    /\ \E k \in 1 .. Len(call.moves) :
          /\ IsDiagonal(call.moves[k])
          /\ FallsSouth(BoardAt(k)[SideOf(call.moves[k])])

(***************************************************************************)
(* Column compaction, stated on the cells of a board.                      *)
(***************************************************************************)
\* The lowest row a piece at (x, y) can fall to past Empty cells and falling
\* pieces: the row above the nearest Wall or piece not movable South below.
RECURSIVE ColumnBase(_, _, _)
ColumnBase(cells, x, y) ==
    IF y = 0 \/ Fixed(cells[<<x, y - 1>>]) THEN y
    ELSE ColumnBase(cells, x, y - 1)

\* The row the South-movable piece at (x, y) is compacted to: above the
\* South-movable pieces that lie between its base and it.
ColumnDest(cells, x, y) ==
    LET base == ColumnBase(cells, x, y)
    IN  base + Cardinality({z \in base .. y - 1 : FallsSouth(cells[<<x, z>>])})

CompactedCells(cells) ==
    [pos \in Pos |->
        IF Fixed(cells[pos]) THEN cells[pos]
        ELSE LET from == {y \in 0 .. height - 1 :
                             /\ FallsSouth(cells[<<pos[1], y>>])
                             /\ ColumnDest(cells, pos[1], y) = pos[2]}
             IN  IF from = {} THEN Empty
                 ELSE cells[<<pos[1], CHOOSE y \in from : TRUE>>]]

\* One move for each piece that changes row: columns left to right, and
\* within a column bottom to top, from cell k on (column-major).
RECURSIVE CompactionMoves(_, _)
CompactionMoves(cells, k) ==
    IF k >= width * height THEN << >>
    ELSE LET x == k \div height
             y == k % height
         IN  IF FallsSouth(cells[<<x, y>>]) /\ ColumnDest(cells, x, y) # y
             THEN << <<<<x, y>>, <<x, ColumnDest(cells, x, y)>>>> >>
                      \o CompactionMoves(cells, k + 1)
             ELSE CompactionMoves(cells, k + 1)

\* C35: the moves of trickle begin with the column moves: one move per
\* South-movable piece that changes row, columns left to right and each column
\* bottom to top, every piece going to the lowest free row above the nearest
\* blocker below it with the order of the pieces kept; the board these moves
\* make is the compacted board, and the move after them, if any, is diagonal.
ColumnCompactionFirst ==
    call.op = "trickle" =>
        \E cells \in {Cells(prev)} :
        \E column_moves \in {CompactionMoves(cells, 0)} :
        \E compacted \in {CompactedCells(cells)} :
            /\ Len(column_moves) <= Len(call.moves)
            /\ SubSeq(call.moves, 1, Len(column_moves)) = column_moves
            /\ Replay(cells, call.moves, Len(column_moves)) = compacted
            /\ Cells(TrickleColumnsFrom(prev, 0, << >>).st) = compacted
            /\ Len(column_moves) < Len(call.moves) =>
                  IsDiagonal(call.moves[Len(column_moves) + 1])

\* A trickle compacted two pieces of one column and a piece of a column to
\* its right, and went on with the diagonal phase.
ColumnCompactionFirstWitness ==
    /\ call.op = "trickle"
    /\ \E j \in 1 .. Len(call.moves), k \in 1 .. Len(call.moves) :
          /\ k = j + 1
          /\ IsVertical(call.moves[j]) /\ IsVertical(call.moves[k])
          /\ call.moves[j][1][1] = call.moves[k][1][1]
          /\ k <= Len(CompactionMoves(Cells(prev), 0))
    /\ \E k \in 1 .. Len(CompactionMoves(Cells(prev), 0)) :
          call.moves[k][1][1] > call.moves[1][1][1]
    /\ Len(call.moves) > Len(CompactionMoves(Cells(prev), 0))

\* The number of cells that hold the piece pc.
CellCount(cells, pc) == Cardinality({pos \in Pos : cells[pos] = pc})

\* The cells after are the cells before in another arrangement: every piece,
\* with its type and its movable directions, and Empty occur as often as
\* before, and the Walls are where they were.
IsPermutation(before, after) ==
    /\ \A pos \in Pos : CellCount(after, before[pos]) = CellCount(before, before[pos])
    /\ \A pos \in Pos : CellCount(after, after[pos]) = CellCount(before, after[pos])
    /\ \A pos \in Pos : (before[pos] = Wall) = (after[pos] = Wall)

\* C36: trickle, the gravity phase of add_and_trickle and a successful
\* swap_pieces only permute the cells: the number of cells of each piece type
\* and of each set of movable directions, the number of Empty cells and the
\* positions of the Walls are unchanged.
GravityPermutesCells ==
    /\ IsGravity => IsPermutation(GravityStart, Cells(State))
    /\ IsSwap /\ ~call.panicked /\ call.ret = TRUE =>
          IsPermutation(Cells(prev), Cells(State))

\* A piece that is not movable in every direction was moved diagonally by
\* gravity on a board with a Wall.
GravityPermutesCellsWitness ==
    /\ IsGravity
    /\ \E k \in 1 .. Len(call.moves) :
          /\ IsDiagonal(call.moves[k])
          /\ BoardAt(k)[call.moves[k][1]].directions # ALL_DIRECTIONS
    /\ \E pos \in Pos : piece(State, pos) = Wall

\* C37: next_match changes no cell: the type boards, the empties and the
\* movable directions are as before.  It removes a prefix of the change queue:
\* the entries up to and including the first one that matches, or every entry
\* when none matches; the entries behind stay, in their order.
NextMatchOnlyPops ==
    IsNextMatch =>
        /\ pieces = prev.pieces
        /\ empties = prev.empties
        /\ movable_directions = prev.movable_directions
        /\ Cells(State) = Cells(prev)
        /\ Examined \o last_changed = prev.last_changed
        /\ \A k \in 1 .. Len(Examined) - 1 : ~MatchesAt(prev, Examined[k])
        /\ call.ret = None =>
              /\ last_changed = << >>
              /\ \A k \in 1 .. Len(Examined) : ~MatchesAt(prev, Examined[k])
        /\ call.ret # None =>
              /\ Examined # << >>
              /\ MatchesAt(prev, Examined[Len(Examined)])
              /\ call.ret.value.changed_pos = Examined[Len(Examined)]

\* next_match returned a match for the second of three entries and left the
\* third, which matches as well, in the queue.
NextMatchOnlyPopsWitness ==
    /\ IsNextMatch /\ call.ret # None
    /\ Len(prev.last_changed) = 3 /\ Len(last_changed) = 1
    /\ MatchesAt(State, last_changed[1])
    /\ \E pos \in Pos : piece(State, pos) = Wall

\* C38: set_piece(p, X) changes only cell p.  Every other cell q holds the
\* same piece (type and movable directions) before and after, and no bit of q
\* differs in the empties, in a direction board or in a type board, whatever X
\* is and whether or not the type of X had a board before the call.
SetPieceChangesOneCell ==
    call.op = "set_piece" /\ ~call.panicked =>
        /\ piece(State, call.first) = call.piece
        /\ \A q \in Pos \ {call.first} :
              /\ piece(State, q) = piece(prev, q)
              /\ BitIsSet(empties, q) = BitIsSet(prev.empties, q)
              /\ \A d \in ALL_DIRECTIONS :
                    BitIsSet(movable_directions[d], q)
                        = BitIsSet(prev.movable_directions[d], q)
              /\ \A t \in DOMAIN pieces :
                    BitIsSet(pieces[t], q)
                        = (t \in DOMAIN prev.pieces /\ BitIsSet(prev.pieces[t], q))

\* set_piece wrote a regular piece whose type had no board yet, on a board
\* that holds a regular piece of another type, a wall and an empty cell
\* elsewhere.
SetPieceChangesOneCellWitness ==
    /\ call.op = "set_piece" /\ ~call.panicked
    /\ call.piece.kind = "Regular"
    /\ call.piece.piece_type \notin DOMAIN prev.pieces
    /\ \E q \in Pos \ {call.first} :
          /\ piece(State, q).kind = "Regular"
          /\ piece(State, q).piece_type # call.piece.piece_type
    /\ \E q \in Pos \ {call.first} : piece(State, q) = Wall
    /\ \E q \in Pos \ {call.first} : piece(State, q) = Empty

====
